---- MODULE Spec2Model ----
(***************************************************************************)
(* A model of lmcvm: the two-pass Little Man Computer assembler            *)
(* (lmc_assemble), the interpreter (lmc_execute) and the driver (main).    *)
(* Text is a sequence of one-character strings; a token (struct pstring)   *)
(* is an offset into the source buffer plus a length, as in the C code.    *)
(***************************************************************************)
EXTENDS Integers, Sequences, FiniteSets, TLC

VARIABLES
    phase,            \* control position: which part of main/lmc_assemble/lmc_execute runs next
    buffer,           \* the source text handed to lmc_assemble (length = Len(buffer))
    pool,             \* mailboxes->pool, short[NUM_MAILBOXES]
    error_msg,        \* mailboxes->error_msg, kept as the values that were formatted into it
    is_comment, head, start, erroneous_token, offset, address, column, cached_labels,
    result,           \* the value returned by lmc_assemble / lmc_execute to main
    pc, ar, acc, ir, negative,   \* registers of lmc_execute
    instream,         \* mailboxes->instream: the characters supplied and not yet read
    input_log,        \* the lines the environment has supplied on the input stream so far
    input_open,       \* whether the environment may still supply a line (FALSE: end of file)
    outstream,        \* mailboxes->outstream: the characters written
    exit_code, printed           \* main's return value and what it puts()

asm_vars == <<is_comment, head, start, erroneous_token, offset, address, column, cached_labels>>
exec_vars == <<pc, ar, acc, ir, negative, instream, input_log, input_open, outstream>>
main_vars == <<exit_code, printed>>
vars == <<phase, buffer, pool, error_msg, result, asm_vars, exec_vars, main_vars>>

----------------------------------------------------------------------------
(* Program constants *)

NUM_MAILBOXES == 100
SizeofShort == 2
AccModulus == 1000
PcModulus == 100
FgetsSize == 5
NULL == -1
NoOffset == -1

Addr == 0 .. (NUM_MAILBOXES - 1)

\* enum opcode
HLT == 0
ADD == 1
SUB == 2
STA == 3
DAT == 4
LDA == 5
BRA == 6
BRZ == 7
BRP == 8
INP == 9
OUT == 10
OP_COUNT == 11
OP_NULL == 12

op_names == <<
    <<"H", "L", "T">>, <<"A", "D", "D">>, <<"S", "U", "B">>, <<"S", "T", "A">>,
    <<"D", "A", "T">>, <<"L", "D", "A">>, <<"B", "R", "A">>, <<"B", "R", "Z">>,
    <<"B", "R", "P">>, <<"I", "N", "P">>, <<"O", "U", "T">> >>

----------------------------------------------------------------------------
(* <ctype.h>, <stdlib.h> and C arithmetic *)

Range(s) == { s[i] : i \in 1 .. Len(s) }

NUL == "NUL"
LowerCase == <<"a", "b", "c", "d", "e", "f", "g", "h", "i", "j", "k", "l", "m",
               "n", "o", "p", "q", "r", "s", "t", "u", "v", "w", "x", "y", "z">>
UpperCase == <<"A", "B", "C", "D", "E", "F", "G", "H", "I", "J", "K", "L", "M",
               "N", "O", "P", "Q", "R", "S", "T", "U", "V", "W", "X", "Y", "Z">>
Digits == <<"0", "1", "2", "3", "4", "5", "6", "7", "8", "9">>

isalpha(c) == c \in Range(LowerCase) \cup Range(UpperCase)
isdigit(c) == c \in Range(Digits)
isspace(c) == c \in {" ", "\n", "\t", "\r"}
toupper(c) ==
    IF c \in Range(LowerCase)
    THEN UpperCase[CHOOSE i \in 1 .. Len(LowerCase) : LowerCase[i] = c]
    ELSE c
DigitValue(c) == (CHOOSE i \in 1 .. Len(Digits) : Digits[i] = c) - 1

\* C's / and % truncate toward zero (b > 0 at every use).
CDiv(a, b) == IF a >= 0 THEN a \div b ELSE -((-a) \div b)
CRem(a, b) == a - b * CDiv(a, b)
CMin(a, b) == IF a < b THEN a ELSE b
CMax(a, b) == IF a > b THEN a ELSE b
\* conversion to unsigned char
ToUChar(x) == x % 256

\* The run of decimal digits at the front of s, as a number (the digit loop of
\* strtol and atoi).
RECURSIVE DigitRun(_, _)
DigitRun(s, n) ==
    IF s = <<>> \/ ~isdigit(Head(s)) THEN n
    ELSE DigitRun(Tail(s), 10 * n + DigitValue(Head(s)))

RECURSIVE SkipSpace(_)
SkipSpace(s) == IF s # <<>> /\ isspace(Head(s)) THEN SkipSpace(Tail(s)) ELSE s

\* atoi: leading white space, an optional sign, then digits.
atoi(s) ==
    LET t == SkipSpace(s)
    IN  IF t # <<>> /\ Head(t) = "-" THEN -DigitRun(Tail(t), 0)
        ELSE IF t # <<>> /\ Head(t) = "+" THEN DigitRun(Tail(t), 0)
        ELSE DigitRun(t, 0)

\* printf("%d"): the decimal digits of n, with a '-' for a negative number.
RECURSIVE NatDigits(_)
NatDigits(n) ==
    IF n < 10 THEN <<Digits[n + 1]>> ELSE NatDigits(n \div 10) \o <<Digits[(n % 10) + 1]>>
FormatInt(n) == IF n < 0 THEN <<"-">> \o NatDigits(-n) ELSE NatDigits(n)

\* util_strncasecmp(lhs, rhs, length) = 0: the do-while loop compares upper-cased
\* characters and stops at a difference, at a NUL, or after `length` characters.
CharOf(s, k) == IF k <= Len(s) THEN s[k] ELSE NUL
RECURSIVE StrNCaseLoop(_, _, _, _)
StrNCaseLoop(lhs, rhs, length, count) ==
    LET lhs_c == toupper(CharOf(lhs, count))
        rhs_c == toupper(CharOf(rhs, count))
    IN  IF lhs_c = rhs_c /\ lhs_c # NUL /\ count < length
        THEN StrNCaseLoop(lhs, rhs, length, count + 1)
        ELSE lhs_c = rhs_c
util_strncasecmp_eq(lhs, rhs, length) == StrNCaseLoop(lhs, rhs, length, 1)

program_isspace(c) == isspace(c) \/ c = NUL \/ c = ";"
program_eol(c) == c = "\n" \/ c = ";"

----------------------------------------------------------------------------
(* struct pstring, struct ir_node *)

ZeroPstring == [string |-> NULL, length |-> 0, line |-> 0, column |-> 0]
\* quick_malloc (calloc) followed by op = OP_NULL, offset = -1
NewNode == [label |-> ZeroPstring, op |-> OP_NULL, offset |-> NoOffset,
            label_offset |-> ZeroPstring]

length == Len(buffer)
CharAt(i) == buffer[i + 1]
\* the characters a token points at
TokenText(tok) == SubSeq(buffer, tok.string + 1, tok.string + tok.length)
\* the node `ir` points at during the first pass: the last one allocated
CurNode == head[Len(head)]

----------------------------------------------------------------------------
(* lmc_assemble, first pass: the tokeniser and instruction builder *)

\* The bytes that may lie in memory right after the buffer (main allocates
\* exactly `length` bytes): nothing that is a digit, or a digit.
OverreadBytes == { <<>>, <<"7">> }

\* what a char* into the buffer points at: the rest of the buffer
FromPointer(p) == SubSeq(buffer, p + 1, Len(buffer))

\* strtol(start.string, NULL, 10) on a token whose first character is a digit.
\* The buffer is not NUL-terminated: when the digits run up to the last byte of
\* the buffer, strtol goes on reading the bytes `beyond` it.
strtol(tok, beyond) == DigitRun(FromPointer(tok.string) \o beyond, 0)

\* The opcode search: the mnemonic index the for-loop stops at, OP_COUNT if none.
FoundOp(node, tok) ==
    LET first == IF isalpha(CharAt(tok.string)) /\ node.op = OP_NULL /\ tok.length = 3
                 THEN HLT ELSE OP_COUNT
        hits == { op \in first .. (OP_COUNT - 1) :
                    util_strncasecmp_eq(FromPointer(tok.string), op_names[op + 1], 3) }
    IN  IF hits = {} THEN OP_COUNT ELSE CHOOSE op \in hits : \A o \in hits : op <= o

\* INP and OUT are encoded as 901 and 902: opcode 9 with the offset pre-seeded.
SetOpcode_OffByOne(node, op) ==
    LET ir_op == CMin(op, 9)
    IN  [node EXCEPT !.op = ir_op,
                     !.offset = IF ir_op = 9 THEN CMax(0, op - 9) ELSE @]
SetOpcode(node, op) ==
    LET ir_op == CMin(op, 9)
    IN  [node EXCEPT !.op = ir_op,
                     !.offset = IF ir_op = 9 THEN CMax(0, op - 8) ELSE @]

\* A numeric operand: DAT takes the hundreds digit as its opcode.
SetNumber(node, num) ==
    [node EXCEPT !.op = IF @ = DAT THEN CRem(CDiv(num, 100), 10) ELSE @,
                 !.offset = CRem(num, 100)]

\* Attaching the token `tok` to the instruction being built:
\* [fail, node, is_label].
AttachToken(node, tok, beyond) ==
    LET op == FoundOp(node, tok)
        first == CharAt(tok.string)
    IN  IF op # OP_COUNT
        THEN [fail |-> FALSE, node |-> SetOpcode(node, op), is_label |-> FALSE]
        ELSE IF node.label.string = NULL /\ isalpha(first) /\ node.op = OP_NULL
        THEN [fail |-> FALSE, node |-> [node EXCEPT !.label = tok], is_label |-> TRUE]
        ELSE IF node.offset = NoOffset /\ node.label_offset.string = NULL
                /\ node.op # OP_NULL
        THEN [fail |-> FALSE,
              node |-> IF isdigit(first) THEN SetNumber(node, strtol(tok, beyond))
                       ELSE [node EXCEPT !.label_offset = tok],
              is_label |-> FALSE]
        ELSE [fail |-> TRUE, node |-> node, is_label |-> FALSE]

\* lmc.c:197-199, 234: an instruction that ends with a label and no opcode
DanglingLabel_Never(node) == FALSE
DanglingLabel(node) == node.op = OP_NULL /\ node.label.string # NULL

\* The size check made after an instruction is closed and `address` advanced.
TooLarge_Unchecked(addr) == FALSE
TooLarge(addr) == addr >= NUM_MAILBOXES

\* How many mailboxes memset(pool, 0, NUM_MAILBOXES) clears: it counts bytes.
MemsetWords == NUM_MAILBOXES \div SizeofShort

NoError == [kind |-> "none"]

\* lmc.c:87-107: memset and the declarations of the first pass
AssembleEntry ==
    /\ phase = "assemble"
    /\ pool' = [a \in Addr |-> IF a < MemsetWords THEN 0 ELSE pool[a]]
    /\ cached_labels' = [a \in Addr |-> ZeroPstring]
    /\ is_comment' = FALSE
    /\ head' = <<NewNode>>
    /\ start' = ZeroPstring
    /\ offset' = 0
    /\ address' = 0
    /\ column' = 1
    /\ phase' = "scan"
    /\ UNCHANGED <<buffer, error_msg, erroneous_token, result, exec_vars, main_vars>>

\* lmc.c:110-115: inside a comment, skip up to and including the newline
ScanComment ==
    /\ phase = "scan" /\ offset < length /\ is_comment
    /\ is_comment' = (CharAt(offset) # "\n")
    /\ offset' = offset + 1
    /\ UNCHANGED <<phase, buffer, pool, error_msg, head, start, erroneous_token, address,
                   column, cached_labels, result, exec_vars, main_vars>>

\* lmc.c:118-125: a ';' with nothing pending is consumed silently
SilentSemicolon ==
    /\ CharAt(offset) = ";"
    /\ CurNode.label.string = NULL /\ CurNode.op = OP_NULL /\ start.string = NULL

ScanSemicolon ==
    /\ phase = "scan" /\ offset < length /\ ~is_comment
    /\ SilentSemicolon
    /\ is_comment' = TRUE
    /\ offset' = offset + 1
    /\ UNCHANGED <<phase, buffer, pool, error_msg, head, start, erroneous_token, address,
                   column, cached_labels, result, exec_vars, main_vars>>

\* lmc.c:128-137: a token character extends (or starts) the current token
ExtendToken(c) ==
    IF program_isspace(c) THEN start
    ELSE IF start.string = NULL
    THEN [string |-> offset, length |-> start.length + 1,
          line |-> address + 1, column |-> column]
    ELSE [start EXCEPT !.length = @ + 1]

\* lmc.c:118-230: one iteration of the scan loop on a character outside a comment
ScanChar ==
    /\ phase = "scan" /\ offset < length /\ ~is_comment
    /\ ~SilentSemicolon
    /\ \E beyond \in OverreadBytes :
       LET c == CharAt(offset)
           start1 == ExtendToken(c)
           last == (offset + 1) >= length
           att == IF start1.string # NULL THEN AttachToken(CurNode, start1, beyond)
                  ELSE [fail |-> FALSE, node |-> CurNode, is_label |-> FALSE]
           eol == program_eol(c) \/ last
           head1 == [head EXCEPT ![Len(head)] = att.node]
           cached1 == IF att.is_label THEN [cached_labels EXCEPT ![address] = start1]
                      ELSE cached_labels
           cleared == [start1 EXCEPT !.string = NULL, !.length = 0]
       IN
       /\ is_comment' = (c = ";")
       /\ IF ~(program_isspace(c) \/ last)
          THEN \* lmc.c:228-230
               /\ start' = start1
               /\ offset' = offset + 1 /\ column' = column + 1
               /\ UNCHANGED <<phase, head, address, cached_labels, erroneous_token, error_msg>>
          ELSE IF att.fail
          THEN \* lmc.c:186-190
               /\ erroneous_token' = start1
               /\ phase' = "lexer_fail"
               /\ start' = start1
               /\ UNCHANGED <<head, offset, column, address, cached_labels, error_msg>>
          ELSE IF eol /\ DanglingLabel(att.node)
          THEN \* lmc.c:197-203
               /\ erroneous_token' = att.node.label
               /\ phase' = "lexer_fail"
               /\ start' = start1 /\ head' = head1 /\ cached_labels' = cached1
               /\ UNCHANGED <<offset, column, address, error_msg>>
          ELSE IF eol /\ att.node.op # OP_NULL
          THEN \* lmc.c:205-221
               /\ head' = Append(head1, NewNode)
               /\ address' = address + 1
               /\ cached_labels' = cached1
               /\ IF TooLarge(address + 1)
                  THEN /\ error_msg' = [kind |-> "TooLarge"]
                       /\ phase' = "compiler_fail"
                       /\ column' = 0
                       /\ start' = start1
                       /\ UNCHANGED <<offset, erroneous_token>>
                  ELSE /\ start' = cleared
                       /\ offset' = offset + 1 /\ column' = 1
                       /\ UNCHANGED <<phase, erroneous_token, error_msg>>
          ELSE \* lmc.c:224-230
               /\ head' = head1 /\ cached_labels' = cached1
               /\ start' = cleared
               /\ offset' = offset + 1 /\ column' = column + 1
               /\ UNCHANGED <<phase, address, erroneous_token, error_msg>>
    /\ UNCHANGED <<buffer, pool, result, exec_vars, main_vars>>

\* lmc.c:233-243: the buffer is exhausted
ScanEnd ==
    /\ phase = "scan" /\ offset >= length
    /\ IF DanglingLabel(CurNode)
       THEN /\ erroneous_token' = CurNode.label
            /\ phase' = "lexer_fail"
            /\ UNCHANGED address
       ELSE /\ phase' = "encode"
            /\ address' = 0
            /\ UNCHANGED erroneous_token
    /\ UNCHANGED <<buffer, pool, error_msg, is_comment, head, start, offset, column,
                   cached_labels, result, exec_vars, main_vars>>

----------------------------------------------------------------------------
(* lmc_assemble, second pass: the encoder *)

\* the addresses whose cached label equals the symbolic operand `tok`
LabelMatches_SeenOnly(tok) ==
    { i \in Addr :
        /\ i < address
        /\ tok.length = cached_labels[i].length
        /\ util_strncasecmp_eq(FromPointer(tok.string),
                               FromPointer(cached_labels[i].string), tok.length) }
LabelMatches(tok) ==
    { i \in Addr :
        /\ tok.length = cached_labels[i].length
        /\ util_strncasecmp_eq(FromPointer(tok.string),
                               FromPointer(cached_labels[i].string), tok.length) }

\* lmc.c:252-264: label_found
LabelFound_Always(tok) == TRUE
LabelFound(tok) == LabelMatches(tok) # {}

RECURSIVE SumSet(_)
SumSet(S) == IF S = {} THEN 0 ELSE LET x == CHOOSE x \in S : TRUE IN x + SumSet(S \ {x})

\* lmc.c:249-271: the word of a node whose symbolic operand (if any) is defined
EncodeValue(node) ==
    IF node.label_offset.string # NULL
    THEN node.op * 100 + SumSet(LabelMatches(node.label_offset))
    ELSE IF node.offset # NoOffset
    THEN node.op * 100 + CRem(node.offset, 100)
    ELSE node.op * 100

\* the node `ir` points at during the second pass
WalkNode == head[address + 1]

\* lmc.c:244-275: one iteration of the second pass
Encode ==
    /\ phase = "encode"
    /\ address + 1 <= Len(head) /\ WalkNode.op # OP_NULL
    /\ IF WalkNode.label_offset.string # NULL /\ ~LabelFound(WalkNode.label_offset)
       THEN /\ erroneous_token' = WalkNode.label_offset
            /\ phase' = "lexer_fail"
            /\ UNCHANGED <<pool, address>>
       ELSE /\ pool' = [pool EXCEPT ![address] = EncodeValue(WalkNode)]
            /\ address' = address + 1
            /\ UNCHANGED <<phase, erroneous_token>>
    /\ UNCHANGED <<buffer, error_msg, is_comment, head, start, offset, column,
                   cached_labels, result, exec_vars, main_vars>>

\* lmc.c:244-247, 277-278: the walk reaches the open node; return true
EncodeDone ==
    /\ phase = "encode"
    /\ address + 1 > Len(head) \/ WalkNode.op = OP_NULL
    /\ result' = TRUE
    /\ phase' = "assembled"
    /\ UNCHANGED <<buffer, pool, error_msg, asm_vars, exec_vars, main_vars>>

\* lmc.c:281-286: "Unknown token on line %d:%d: " followed by the token's text
UnknownTokenMsg(tok) ==
    [kind |-> "UnknownToken", line |-> tok.line, column |-> tok.column,
     text |-> TokenText(tok)]

\* lmc.c:280-289: format the message, fall into compiler_fail, return false
LexerFail ==
    /\ phase = "lexer_fail"
    /\ error_msg' = UnknownTokenMsg(erroneous_token)
    /\ result' = FALSE
    /\ phase' = "assembled"
    /\ UNCHANGED <<buffer, pool, asm_vars, exec_vars, main_vars>>

\* lmc.c:287-289
CompilerFail ==
    /\ phase = "compiler_fail"
    /\ result' = FALSE
    /\ phase' = "assembled"
    /\ UNCHANGED <<buffer, pool, error_msg, asm_vars, exec_vars, main_vars>>

----------------------------------------------------------------------------
(* main *)

\* main.c:37-48: after lmc_assemble; lmc.c:296-307: the registers of lmc_execute
MainAssembled ==
    /\ phase = "assembled"
    /\ IF result
       THEN /\ phase' = "execute"
            /\ pc' = 0 /\ ar' = 0 /\ acc' = 0 /\ ir' = OP_NULL /\ negative' = FALSE
            /\ UNCHANGED <<exit_code, printed>>
       ELSE /\ phase' = "exit"
            /\ printed' = error_msg
            /\ exit_code' = 1
            /\ UNCHANGED <<pc, ar, acc, ir, negative>>
    /\ UNCHANGED <<buffer, pool, error_msg, asm_vars, result, instream, input_log,
                   input_open, outstream>>

\* main.c:42-49: after lmc_execute
MainExecuted ==
    /\ phase = "executed"
    /\ phase' = "exit"
    /\ IF result
       THEN exit_code' = 0 /\ UNCHANGED printed
       ELSE exit_code' = 1 /\ printed' = error_msg
    /\ UNCHANGED <<buffer, pool, error_msg, asm_vars, result, exec_vars>>

----------------------------------------------------------------------------
(* lmc_execute *)

\* What char buffer[5] may hold when fgets reads nothing (end of input): the
\* array is not initialised.
StaleBuffers == { <<>>, <<"-", "1">>, <<"4", "2">> }

\* fgets(buffer, sizeof(buffer), instream): at most sizeof(buffer) - 1 characters,
\* stopping after a newline.  [got, buffer, rest]
RECURSIVE FgetsCount(_, _)
FgetsCount(stream, room) ==
    IF room = 0 \/ stream = <<>> THEN 0
    ELSE IF Head(stream) = "\n" THEN 1
    ELSE 1 + FgetsCount(Tail(stream), room - 1)
fgets(stream, stale) ==
    LET n == FgetsCount(stream, FgetsSize - 1)
    IN  IF n = 0 THEN [buffer |-> stale, rest |-> stream]
        ELSE [buffer |-> SubSeq(stream, 1, n), rest |-> SubSeq(stream, n + 1, Len(stream))]

\* lmc.c:313
NextPc_NoWrap(p) == p + 1
NextPc(p) == (p + 1) % PcModulus
\* lmc.c:316: the instruction register; digit 9 is spread over INP, OUT by the operand
Decode(data) ==
    CDiv(data, 100) + (IF CDiv(data, 100) = INP THEN CRem(data, 100) - 1 ELSE 0)
\* lmc.c:317: the address register, an unsigned char
DecodeAr(data) == ToUChar(CRem(data, 100))
\* lmc.c:327
AddAcc(a, m) == CRem(a + m, AccModulus)
\* lmc.c:332-333
SubNegative_AfterSub(a, m) == CRem(a - m, AccModulus) < m
SubNegative_OrEqual(a, m) == a <= m
SubNegative(a, m) == a < m
SubAcc(a, m) == CRem(a - m, AccModulus)
\* lmc.c:360-361
BrpTarget_Inverted(neg, target, next) == IF neg THEN target ELSE next
BrpTarget(neg, target, next) == IF ~neg THEN target ELSE next
\* lmc.c:354-355
BrzTarget(a, target, next) == IF a = 0 THEN target ELSE next
\* lmc.c:372-376
InpNegative(buf) == CharOf(buf, 1) = "-"
InpAcc(buf) == IF InpNegative(buf) THEN atoi(Tail(buf)) ELSE atoi(buf)
\* lmc.c:383
OutLine_Blank(a) == <<"\n">>
OutLine(a) == FormatInt(a) \o <<"\n">>

Executable == {ADD, SUB, STA, LDA, BRA, BRZ, BRP, INP, OUT}

\* The output stream accepts MaxOutLines lines; a further OUT blocks in fprintf.
MaxOutLines == 2
LinesIn(stream) == Cardinality({ i \in 1 .. Len(stream) : stream[i] = "\n" })

\* The lines the environment may type: every value 0..999 and a negative one.
InputLine(v) == FormatInt(v) \o <<"\n">>
InputLines == { InputLine(v) : v \in -1 .. (AccModulus - 1) }

\* What a blocking read finds when nothing is buffered: the environment supplies
\* one more line, or the stream is at its end (the empty supply).
MaxInputLines == 1
Supply(lines) ==
    IF instream = <<>> /\ input_open /\ Len(input_log) < MaxInputLines
    THEN lines \cup {<<>>} ELSE {<<>>}

\* lmc.c:309-396: one iteration of the fetch-decode-execute loop
ExecStep ==
    /\ phase = "execute"
    /\ LET data == pool[pc]
           pc1 == NextPc(pc)
           op == Decode(data)
           a == DecodeAr(data)
       IN
       /\ op = OUT => LinesIn(outstream) < MaxOutLines
       /\ ir' = op
       /\ ar' = a
       /\ pc' = CASE op = BRA -> a
                  [] op = BRZ -> BrzTarget(acc, a, pc1)
                  [] op = BRP -> BrpTarget(negative, a, pc1)
                  [] OTHER -> pc1
       /\ pool' = IF op = STA THEN [pool EXCEPT ![a] = acc] ELSE pool
       /\ outstream' = IF op = OUT THEN outstream \o OutLine(acc) ELSE outstream
       /\ IF op = INP
          THEN \E line \in Supply(InputLines), stale \in StaleBuffers :
                 LET rd == fgets(instream \o line, stale)
                 IN  /\ acc' = InpAcc(rd.buffer)
                     /\ negative' = InpNegative(rd.buffer)
                     /\ instream' = rd.rest
                     /\ input_log' = IF line = <<>> THEN input_log
                                     ELSE Append(input_log, line)
                     /\ input_open' = (input_open /\ (instream # <<>> \/ line # <<>>))
          ELSE /\ acc' = CASE op = ADD -> AddAcc(acc, pool[a])
                           [] op = SUB -> SubAcc(acc, pool[a])
                           [] op = LDA -> pool[a]
                           [] OTHER -> acc
               /\ negative' = CASE op = ADD -> FALSE
                                [] op = SUB -> SubNegative(acc, pool[a])
                                [] op = LDA -> FALSE
                                [] OTHER -> negative
               /\ UNCHANGED <<instream, input_log, input_open>>
       /\ IF op = HLT
          THEN phase' = "executed" /\ result' = TRUE /\ UNCHANGED error_msg
          ELSE IF op \in Executable
          THEN UNCHANGED <<phase, result, error_msg>>
          ELSE /\ phase' = "executed" /\ result' = FALSE
               /\ error_msg' = [kind |-> "UnknownOpcode", opcode |-> op]
    /\ UNCHANGED <<buffer, asm_vars, main_vars>>

----------------------------------------------------------------------------
(* The sources, images and input streams the model is run on *)

MaxLines == 2
MaxOver == 1
MaxProg == 2

SP == <<" ">>
NL == <<"\n">>
HltLine == <<"H", "L", "T">>
OutLineSrc == <<"O", "U", "T">>
DefLine == <<"x">> \o SP \o <<"D", "A", "T">> \o SP \o <<"5">>
RefLine == <<"l", "d", "a">> \o SP \o <<"X">>
UndefLine == <<"A", "D", "D">> \o SP \o <<"y", "2">> \o SP \o <<";", "c">>
LabelOnlyLine == <<"f", "o", "o">>
CommentLine == <<";", "c">>
BadLine == <<"O", "U", "T">> \o SP \o <<"1">>
LineVocab == { <<>>, HltLine, DefLine, RefLine, UndefLine, LabelOnlyLine, CommentLine,
               BadLine }

RECURSIVE Join(_)
Join(lines) ==
    IF lines = <<>> THEN <<>>
    ELSE IF Len(lines) = 1 THEN lines[1]
    ELSE lines[1] \o NL \o Join(Tail(lines))

SeqsUpTo(S, n) == UNION { [1 .. k -> S] : k \in 0 .. n }

\* every text of at most MaxLines lines of the vocabulary
SmallSources == { Join(ls) : ls \in SeqsUpTo(LineVocab, MaxLines) }
\* a label-only line, a reference and a definition in the middle of a program;
\* a label-only line ended by a comment or by a final newline
MiddleSources ==
    { Join(<<HltLine, mid, HltLine>>) : mid \in {LabelOnlyLine, RefLine, DefLine} }
    \cup { Join(<<RefLine, HltLine, DefLine>>), Join(<<DefLine, HltLine, RefLine, <<>> >>),
           Join(<<RefLine, DefLine, DefLine, <<>> >>),
           Join(<<HltLine, LabelOnlyLine \o CommentLine>>),
           Join(<<HltLine, LabelOnlyLine \o SP \o CommentLine, HltLine>>),
           Join(<<HltLine, LabelOnlyLine, <<>> >>) }
\* programs around the size limit, with and without a final newline
ManyLines(line, n) ==
    [i \in 1 .. (n * (Len(line) + 1) - 1) |->
        IF i % (Len(line) + 1) = 0 THEN "\n" ELSE line[i % (Len(line) + 1)]]
BigSources ==
    { ManyLines(OutLineSrc, n) \o tail :
        n \in (NUM_MAILBOXES - 1) .. (NUM_MAILBOXES + MaxOver), tail \in {<<>>, NL} }
RoundTripSource ==
    Join(<< <<"I", "N", "P">>, <<"S", "T", "A">> \o SP \o <<"9", "9">>,
            <<"L", "D", "A">> \o SP \o <<"9", "9">>, <<"O", "U", "T">>, HltLine >>)

\* a program with comments after its tokens and blank and comment-only lines
\* before, between and after its instructions; the same without any of them,
\* with and without a final newline
CommentedSources ==
    { Join(<<CommentLine, <<>>, RefLine \o <<";">>, SP, DefLine \o SP \o CommentLine,
             <<>>, CommentLine>>),
      Join(<<RefLine, DefLine \o CommentLine>>),
      Join(<<RefLine, DefLine>>), Join(<<RefLine, DefLine, <<>> >>) }

\* 99 instructions 'x BRA x': every address defines the label it refers to
SelfRefLine == <<"x">> \o SP \o <<"B", "R", "A">> \o SP \o <<"x">>
DuplicateSource == ManyLines(SelfRefLine, NUM_MAILBOXES - 1)

\* what the caller's uninitialised struct mailboxes may hold
GarbageWords == {0, 777}
InitPools == { [a \in Addr |-> g] : g \in GarbageWords }

Scenarios ==
    { [buffer |-> b, pool |-> p] :
        b \in SmallSources \cup MiddleSources \cup CommentedSources \cup BigSources
                \cup {RoundTripSource, DuplicateSource},
        p \in InitPools }

InitLocals ==
    /\ error_msg = NoError
    /\ is_comment = FALSE
    /\ head = <<NewNode>>
    /\ start = ZeroPstring
    /\ erroneous_token = ZeroPstring
    /\ offset = 0 /\ address = 0 /\ column = 1
    /\ cached_labels = [a \in Addr |-> ZeroPstring]
    /\ result = FALSE
    /\ pc = 0 /\ ar = 0 /\ acc = 0 /\ ir = OP_NULL /\ negative = FALSE
    /\ instream = <<>> /\ input_log = <<>> /\ input_open = TRUE
    /\ outstream = <<>>
    /\ exit_code = NULL /\ printed = NoError

\* main.c:36-40: main calls lmc_assemble on the file's text
Init ==
    /\ \E sc \in Scenarios :
         buffer = sc.buffer /\ pool = sc.pool
    /\ phase = "assemble"
    /\ InitLocals

Next ==
    \/ AssembleEntry
    \/ ScanComment
    \/ ScanSemicolon
    \/ ScanChar
    \/ ScanEnd
    \/ Encode
    \/ EncodeDone
    \/ LexerFail
    \/ CompilerFail
    \/ MainAssembled
    \/ ExecStep
    \/ MainExecuted

Spec == Init /\ [][Next]_vars

----------------------------------------------------------------------------
(* lmc_execute on its own: images as the Program Image format allows them *)

\* ADD 9, SUB 9, STA 9, LDA 9, branches to 0 and 2, INP, OUT, HLT, an unknown
\* opcode, and the words 900 and 999 under opcode digit 9
ExecWords == {0, 109, 209, 309, 509, 600, 702, 800, 802, 901, 902, 400, 900, 999}
DataWords == {0, 5, 999}
ExecImages ==
    { [a \in Addr |-> IF a < MaxProg THEN prog[a + 1] ELSE IF a = 9 THEN d ELSE 0] :
        prog \in [1 .. MaxProg -> ExecWords], d \in DataWords }
ExecInputs == { <<>>, <<InputLine(7)>>, <<InputLine(-12), InputLine(999)>>,
                <<InputLine(-123), InputLine(45)>> }
RECURSIVE Flatten(_)
Flatten(lines) == IF lines = <<>> THEN <<>> ELSE Head(lines) \o Flatten(Tail(lines))

\* lmc.c:293-307: lmc_execute entered with the image in place and the input stream
\* already written
InitExec ==
    /\ phase = "execute"
    /\ buffer = <<>>
    /\ pool \in ExecImages
    /\ error_msg = NoError
    /\ is_comment = FALSE
    /\ head = <<NewNode>>
    /\ start = ZeroPstring
    /\ erroneous_token = ZeroPstring
    /\ offset = 0 /\ address = 0 /\ column = 1
    /\ cached_labels = [a \in Addr |-> ZeroPstring]
    /\ result = TRUE
    /\ pc = 0 /\ ar = 0 /\ acc = 0 /\ ir = OP_NULL /\ negative = FALSE
    /\ \E lines \in ExecInputs : instream = Flatten(lines) /\ input_log = lines
    /\ input_open = FALSE
    /\ outstream = <<>>
    /\ exit_code = NULL /\ printed = NoError

NextExec == ExecStep \/ MainExecuted

SpecExec == InitExec /\ [][NextExec]_vars

----------------------------------------------------------------------------
(* The source text format read line by line: one instruction per line, an      *)
(* optional leading label, a mnemonic, an optional operand, ';' comments.      *)
(* These definitions state what the claims call an instruction and a           *)
(* well-formed source; they do not use the scanner above.                      *)

SrcLineStarts == { i \in 1 .. Len(buffer) : i = 1 \/ buffer[i - 1] = "\n" }
\* the first position at or after i that ends the code of the line: a newline,
\* a ';' or the end of the text
SrcCodeEnd(i) ==
    CHOOSE k \in i .. (Len(buffer) + 1) :
        /\ k = Len(buffer) + 1 \/ buffer[k] \in {"\n", ";"}
        /\ \A j \in i .. (k - 1) : buffer[j] \notin {"\n", ";"}
SrcBlank(c) == c \in {" ", "\t", "\r"}
\* the tokens of the line starting at i, as <<first, last>> positions
SrcTokens(i) ==
    LET e == SrcCodeEnd(i) - 1
    IN  { <<a, b>> \in (i .. e) \X (i .. e) :
            /\ a <= b
            /\ \A j \in a .. b : ~SrcBlank(buffer[j])
            /\ a = i \/ SrcBlank(buffer[a - 1])
            /\ b = e \/ SrcBlank(buffer[b + 1]) }
SrcText(t) == [k \in 1 .. (t[2] - t[1] + 1) |-> toupper(buffer[t[1] + k - 1])]
SrcIsMnemonic(t) == SrcText(t) \in Range(op_names)
\* the k-th token of a line
SrcNth(toks, k) == CHOOSE t \in toks : Cardinality({ u \in toks : u[1] < t[1] }) = k - 1
SrcLabelOf(i) ==
    LET toks == SrcTokens(i)
    IN  IF toks # {} /\ ~SrcIsMnemonic(SrcNth(toks, 1)) THEN {SrcText(SrcNth(toks, 1))}
        ELSE {}
\* the lines that hold an instruction
SrcInstrLines == { i \in SrcLineStarts : SrcTokens(i) # {} }
NumInstr == Cardinality(SrcInstrLines)
SrcLabels == UNION { SrcLabelOf(i) : i \in SrcInstrLines }

SrcOperandOk(mn, t) ==
    LET text == SrcText(t)
    IN  /\ mn \notin { op_names[INP + 1], op_names[OUT + 1] }
        /\ \/ (\A k \in 1 .. Len(text) : isdigit(text[k])) /\ Len(text) <= 3
           \/ isalpha(text[1]) /\ text \in SrcLabels
SrcLineOk(i) ==
    LET toks == SrcTokens(i)
        n == Cardinality(toks)
        labelled == ~SrcIsMnemonic(SrcNth(toks, 1))
        m == IF labelled THEN 2 ELSE 1     \* where the mnemonic stands
    IN  /\ n \in m .. (m + 1)
        /\ labelled => isalpha(SrcText(SrcNth(toks, 1))[1])
        /\ SrcIsMnemonic(SrcNth(toks, m))
        /\ n = m + 1 => SrcOperandOk(SrcText(SrcNth(toks, m)), SrcNth(toks, m + 1))
WellFormed ==
    /\ \A i \in SrcInstrLines : SrcLineOk(i)
    /\ Cardinality({ i \in SrcInstrLines : SrcLabelOf(i) # {} }) = Cardinality(SrcLabels)

----------------------------------------------------------------------------
(* Claims *)

\* C1: lmc_assemble returns true for every well-formed source of n <= 100
\* instructions, n = 100 included, and never reports 'Program is too large' for
\* such a source.
C1_AssemblesUpToHundred ==
    (phase = "assembled" /\ WellFormed /\ NumInstr <= NUM_MAILBOXES)
        => (result = TRUE /\ error_msg.kind # "TooLarge")

\* What the code does instead: a well-formed source assembles exactly when it
\* has fewer than NUM_MAILBOXES instructions.
AssemblesBelowHundred ==
    (phase = "assembled" /\ WellFormed) => (result = (NumInstr < NUM_MAILBOXES))

\* the pool as AssembleEntry leaves it when nothing else has written to it
UntouchedPools ==
    { [a \in Addr |-> IF a < MemsetWords THEN 0 ELSE g] : g \in GarbageWords }

C3_ZeroPadding ==
    (phase = "assembled" /\ result = TRUE)
        => \A a \in Addr : a >= NumInstr => pool[a] = 0

\* What the code guarantees instead: the padding is zero up to MemsetWords.
ZeroPaddingFirstHalf ==
    (phase = "assembled" /\ result = TRUE)
        => \A a \in Addr : (a >= NumInstr /\ a < MemsetWords) => pool[a] = 0

\* C4: on an image of words in 0..999 with inputs in 0..999 the accumulator stays
\* in 0..999: ADD and SUB wrap modulo 1000 and SUB never leaves a negative value.
NonNegInputLines == { InputLine(v) : v \in 0 .. (AccModulus - 1) }
C4_AccumulatorInRange ==
    (\A k \in 1 .. Len(input_log) : input_log[k] \in NonNegInputLines)
        => acc \in 0 .. (AccModulus - 1)

\* What the code guarantees instead: the magnitude stays below 1000.
AccumulatorMagnitude ==
    (\A k \in 1 .. Len(input_log) : input_log[k] \in NonNegInputLines)
        => acc \in -(AccModulus - 1) .. (AccModulus - 1)

\* C5: right after a SUB the negative flag equals (accumulator before the SUB <
\* image[operand]); right after an ADD or an LDA it is false; STA, BRA, BRZ, BRP
\* and OUT leave it unchanged.
C5_NegativeFlagRule ==
    [][ phase = "execute" =>
          LET op == Decode(pool[pc])
              a == DecodeAr(pool[pc])
          IN  /\ op = SUB => negative' = (acc < pool[a])
              /\ op \in {ADD, LDA} => negative' = FALSE
              /\ op \in {STA, BRA, BRZ, BRP, OUT} => negative' = negative ]_vars

\* a STA has run with the flag still set by an underflowing SUB
C5_Witness == phase = "execute" /\ ir = STA /\ negative /\ pool[ar] = acc /\ acc < 0

\* C6: a BRP with operand x sets the program counter to x when the negative flag is
\* false and to (its own address + 1) mod 100 when it is true, whatever the
\* accumulator holds, and changes neither accumulator, flag nor image.
C6_BrpBranchesOnFlag ==
    [][ (phase = "execute" /\ Decode(pool[pc]) = BRP) =>
          /\ pc' = IF negative THEN (pc + 1) % 100 ELSE pool[pc] % 100
          /\ acc' = acc /\ negative' = negative /\ pool' = pool ]_vars

\* a BRP 0 at address 1 was not taken after an underflowing SUB
C6_Witness == phase = "execute" /\ ir = BRP /\ ar = 0 /\ negative /\ acc # 0 /\ pc = 2

\* C7: 'INP / STA 99 / LDA 99 / OUT / HLT' assembles to 901, 399, 599, 902, 0 and,
\* for every input line holding v in 0..999, execution writes the one line v and
\* halts (returns true) with mailbox 99 holding v.
InputTable == [v \in 0 .. (AccModulus - 1) |-> InputLine(v)]
C7_RoundTrip ==
    buffer = RoundTripSource =>
      /\ phase = "assembled" =>
           /\ result = TRUE
           /\ <<pool[0], pool[1], pool[2], pool[3], pool[4]>> = <<901, 399, 599, 902, 0>>
      /\ phase = "execute" => pc \in 0 .. 4
      /\ phase \in {"executed", "exit"} =>
           \A v \in DOMAIN InputTable :
              input_log = <<InputTable[v]>> =>
                 /\ result = TRUE
                 /\ outstream = InputTable[v]
                 /\ pool[99] = v

C7_Witness ==
    /\ buffer = RoundTripSource /\ phase = "exit" /\ exit_code = 0
    /\ input_log = << <<"9", "9", "9", "\n">> >>
    /\ outstream = <<"9", "9", "9", "\n">> /\ pool[99] = 999

UpperText(t) == [k \in 1 .. Len(t) |-> toupper(t[k])]
\* the addresses whose instruction carries the label `tok` names
LabelDefs(tok) ==
    { a \in 0 .. (Len(head) - 1) :
        /\ head[a + 1].label.string # NULL
        /\ UpperText(TokenText(head[a + 1].label)) = UpperText(TokenText(tok)) }

\* C8: an instruction whose symbolic operand names a label defined exactly once,
\* at address a, is encoded as opcode_digit * 100 + a, whether the definition
\* comes before or after it and whatever the letter case on either side.
C8_LabelOperandResolves ==
    [][ (/\ phase = "encode" /\ address + 1 <= Len(head)
         /\ WalkNode.op # OP_NULL /\ WalkNode.label_offset.string # NULL) =>
          \A a \in Addr :
             LabelDefs(WalkNode.label_offset) = {a} =>
                /\ phase' = "encode"
                /\ pool'[address] = WalkNode.op * 100 + a ]_vars

\* 'lda X' at address 0 with 'x DAT 5' defined later, at address 2
C8_Witness ==
    /\ buffer = Join(<<RefLine, HltLine, DefLine>>)
    /\ phase = "assembled" /\ result = TRUE /\ pool[0] = 502 /\ pool[2] = 5

\* the 'Unknown token on line L:C: <text>' error that cites the token `tok`
Cites(msg, tok) ==
    msg = [kind |-> "UnknownToken", line |-> tok.line, column |-> tok.column,
           text |-> SubSeq(buffer, tok.string + 1, tok.string + tok.length)]
\* the instructions whose symbolic operand names no label of the source text
UndefinedOperandNodes ==
    { k \in 1 .. Len(head) :
        /\ head[k].label_offset.string # NULL
        /\ UpperText(TokenText(head[k].label_offset)) \notin SrcLabels }
\* the scan loop ran to the end of the buffer and lmc.c:234 found nothing wrong
FirstPassDone == offset >= length /\ ~(CurNode.op = OP_NULL /\ CurNode.label.string # NULL)

\* C9 as stated: if any instruction has a symbolic operand that matches no label
\* defined anywhere in the program, lmc_assemble returns false with an 'Unknown
\* token' error citing such an operand token with its captured line and column.
C9_UndefinedOperandCited ==
    (phase = "assembled" /\ UndefinedOperandNodes # {}) =>
        /\ result = FALSE
        /\ \E k \in UndefinedOperandNodes : Cites(error_msg, head[k].label_offset)

\* C9 as amended: if the first pass completes without error and some instruction
\* has a symbolic operand that matches no label of the program, lmc_assemble
\* returns false with an 'Unknown token' error citing the operand of the first
\* such instruction in address order, with its captured line and column.
C9_FirstUndefinedOperandCited ==
    (phase = "assembled" /\ FirstPassDone /\ UndefinedOperandNodes # {}) =>
        LET k == CHOOSE k \in UndefinedOperandNodes :
                    \A j \in UndefinedOperandNodes : k <= j
        IN  /\ result = FALSE
            /\ Cites(error_msg, head[k].label_offset)

\* two undefined operands, 'X' on line 1 and 'y2' on line 2; the first is cited
C9_Witness ==
    /\ buffer = Join(<<RefLine, UndefLine>>)
    /\ phase = "exit" /\ exit_code = 1
    /\ printed = [kind |-> "UnknownToken", line |-> 1, column |-> 5, text |-> <<"X">>]

\* The scan is at an end of instruction (newline, ';' or the last character) and
\* the instruction then holds a label and no opcode: the label was attached
\* before, or it is the token this character completes.
PendingText ==
    IF CharAt(offset) \in {" ", "\t", "\r", "\n", ";"}
    THEN (IF start.string = NULL THEN <<>> ELSE TokenText(start))
    ELSE SubSeq(buffer, (IF start.string = NULL THEN offset ELSE start.string) + 1,
                offset + 1)
IsLabelText(t) == t # <<>> /\ isalpha(t[1]) /\ UpperText(t) \notin Range(op_names)
LabelOnlyAtEol ==
    /\ phase = "scan" /\ offset < length /\ ~is_comment
    /\ CharAt(offset) \in {"\n", ";"} \/ offset + 1 >= length
    /\ CurNode.op = OP_NULL
    /\ \/ CurNode.label.string # NULL /\ PendingText = <<>>
       \/ CurNode.label.string = NULL /\ IsLabelText(PendingText)
DanglingText == IF CurNode.label.string # NULL THEN TokenText(CurNode.label) ELSE PendingText

\* C10: when an end of instruction is reached while the current instruction has a
\* label and no opcode, lmc_assemble returns false with an 'Unknown token' error
\* citing that label, wherever the label-only line stands.
C10_LabelOnlyLineFails ==
    [][ /\ LabelOnlyAtEol =>
             /\ phase' = "lexer_fail"
             /\ TokenText(erroneous_token') = DanglingText
             /\ erroneous_token'.line = address + 1
        /\ phase = "lexer_fail" =>
             /\ phase' = "assembled" /\ result' = FALSE
             /\ Cites(error_msg', erroneous_token) ]_vars

\* 'foo ;c' on the second line of three
C10_Witness ==
    /\ buffer = Join(<<HltLine, LabelOnlyLine \o SP \o CommentLine, HltLine>>)
    /\ phase = "exit" /\ exit_code = 1
    /\ printed = [kind |-> "UnknownToken", line |-> 2, column |-> 1,
                  text |-> <<"f", "o", "o">>]

----------------------------------------------------------------------------
(* The program a source text denotes, read off its instruction lines alone:    *)
(* comments and blank lines contribute nothing by construction.                *)

\* the instruction lines in text order
SrcInstrSeq ==
    [k \in 1 .. NumInstr |->
        CHOOSE i \in SrcInstrLines : Cardinality({ j \in SrcInstrLines : j < i }) = k - 1]
\* a token <<first, last>> of the text as a pstring
SrcPstring(t) == [string |-> t[1] - 1, length |-> t[2] - t[1] + 1, line |-> 0, column |-> 0]
\* attaching the tokens k.. of the line starting at i, each followed in memory by
\* a separator: [fail, node]
RECURSIVE RefAttach(_, _, _)
RefAttach(node, i, k) ==
    IF k > Cardinality(SrcTokens(i)) THEN [fail |-> DanglingLabel(node), node |-> node]
    ELSE LET att == AttachToken(node, SrcPstring(SrcNth(SrcTokens(i), k)), <<>>)
         IN  IF att.fail THEN [fail |-> TRUE, node |-> node]
             ELSE RefAttach(att.node, i, k + 1)
RefNode(k) == RefAttach(NewNode, SrcInstrSeq[k], 1)
\* what a node says, apart from where its tokens stand in the text
NodeContent(node) ==
    [op |-> node.op, offset |-> node.offset,
     label |-> IF node.label.string = NULL THEN <<>> ELSE UpperText(TokenText(node.label)),
     operand |-> IF node.label_offset.string = NULL THEN <<>>
                 ELSE UpperText(TokenText(node.label_offset))]
RefFirstPassOk ==
    /\ NumInstr < NUM_MAILBOXES
    /\ \A k \in 1 .. NumInstr : ~RefNode(k).fail
\* the addresses of the instructions labelled `text`
RefAddrs(text) == { k - 1 : k \in { j \in 1 .. NumInstr : NodeContent(RefNode(j).node).label = text } }
RefOk ==
    /\ RefFirstPassOk
    /\ \A k \in 1 .. NumInstr :
          LET c == NodeContent(RefNode(k).node)
          IN  c.operand # <<>> => RefAddrs(c.operand) # {}
RefWord(k) ==
    LET c == NodeContent(RefNode(k).node)
    IN  c.op * 100 + (IF c.operand # <<>> THEN SumSet(RefAddrs(c.operand))
                      ELSE IF c.offset # NoOffset THEN c.offset % 100 ELSE 0)
\* the outcome of lmc_assemble is the one the instruction lines alone determine
OutcomeOfTokens ==
    /\ (phase = "encode" \/ (phase = "assembled" /\ result)) =>
          /\ Len(head) = NumInstr + 1
          /\ \A k \in 1 .. NumInstr : NodeContent(head[k]) = NodeContent(RefNode(k).node)
    /\ phase = "assembled" =>
          /\ result = RefOk
          /\ result => \A k \in 1 .. NumInstr : pool[k - 1] = RefWord(k)
\* the text does not end inside a run of digits
EndsClean == buffer = <<>> \/ ~isdigit(buffer[Len(buffer)])

\* C11: comments and blank lines do not affect assembly: whatever comments and
\* blank or comment-only lines a source holds, and wherever (before the first
\* instruction, after an instruction's tokens, at the end of the buffer), the
\* result and the image are those of its instruction lines alone, and only
\* instruction lines advance the address counter.
C11_CommentsIgnored == OutcomeOfTokens

\* the same, for texts whose last character is not a digit (checked on the
\* texts of a few lines)
CommentsIgnoredCleanEnd == (EndsClean /\ Len(buffer) < NUM_MAILBOXES) => OutcomeOfTokens

----------------------------------------------------------------------------
(* lmc_assemble on instructions with a numeric literal *)

\* the mnemonics that take an operand, DAT apart
OperandMnemonics == { op_names[op + 1] : op \in {HLT, ADD, SUB, STA, LDA, BRA, BRZ, BRP} }
\* literals the other mnemonics are tried with: small, two and three digits, and
\* one of four digits
FewLiterals == {0, 5, 99, 100, 999, 1234}
\* 'DAT n' for every n in 0..999 and '<mnemonic> n' for a few n, as the first or
\* the second instruction, ended by a newline or by the end of the buffer
LiteralSources ==
    { before \o line \o tail :
        before \in {<<>>, HltLine \o NL},
        line \in { op_names[DAT + 1] \o SP \o FormatInt(n) : n \in 0 .. (AccModulus - 1) }
                 \cup { mn \o SP \o FormatInt(n) : mn \in OperandMnemonics, n \in FewLiterals },
        tail \in {<<>>, NL} }

InitLit ==
    /\ buffer \in LiteralSources
    /\ pool \in { p \in InitPools : p[0] # 0 }
    /\ phase = "assemble"
    /\ InitLocals

NextLit ==
    \/ AssembleEntry
    \/ ScanChar
    \/ ScanEnd
    \/ Encode
    \/ EncodeDone

SpecLit == InitLit /\ [][NextLit]_vars

\* the last instruction line of the text: its mnemonic, its literal, the digit
\* of its mnemonic and its address
LitTokens == SrcTokens(SrcInstrSeq[NumInstr])
LitMnemonic == SrcText(SrcNth(LitTokens, 1))
LitNumber == DigitRun(SrcText(SrcNth(LitTokens, 2)), 0)
LitDigit == CMin((CHOOSE i \in 1 .. OP_COUNT : op_names[i] = LitMnemonic) - 1, 9)
LitAddress == NumInstr - 1
LitWord ==
    IF LitMnemonic = op_names[DAT + 1] THEN LitNumber
    ELSE LitDigit * 100 + (LitNumber % 100)
LiteralEncoded == phase = "assembled" => (result /\ pool[LitAddress] = LitWord)

\* C12: 'DAT n' with n in 0..999 at address a assembles to image[a] = n, and any
\* other mnemonic of digit d with the literal n to the word d * 100 + (n mod 100).
C12_LiteralEncoded == LiteralEncoded

\* the same, when the literal is not the last thing in the buffer
LiteralEncodedCleanEnd == EndsClean => LiteralEncoded

----------------------------------------------------------------------------
(* INP and the lines of the input stream *)

\* the lines of input_log not yet touched, when the unread input starts at the
\* beginning of a line
UnreadLines ==
    { j \in 1 .. Len(input_log) :
        instream = Flatten(SubSeq(input_log, j, Len(input_log))) }
NextInputLine == input_log[CHOOSE j \in UnreadLines : TRUE]
LineNegative(line) == line[1] = "-"
LineMagnitude(line) == DigitRun(IF LineNegative(line) THEN Tail(line) ELSE line, 0)
InpAtLineStart ==
    /\ phase = "execute" /\ Decode(pool[pc]) = INP
    /\ instream # <<>> /\ UnreadLines # {}
InpTakesNextLine ==
    /\ acc' = LineMagnitude(NextInputLine)
    /\ negative' = LineNegative(NextInputLine)
    /\ instream' = SubSeq(instream, Len(NextInputLine) + 1, Len(instream))

\* C13: each executed INP consumes exactly one line: an INP that finds the input
\* at the start of a line (an optional '-' and one to three digits, then a
\* newline) sets the accumulator to that line's magnitude and the flag to its
\* sign, and leaves the input at the start of the following line, so the k-th
\* INP reads the k-th line.
C13_InpConsumesOneLine == [][InpAtLineStart => InpTakesNextLine]_vars

\* the same for the lines that fit the four characters fgets may store: at most
\* three characters before the newline
InpConsumesShortLine ==
    [][(InpAtLineStart /\ Len(NextInputLine) <= FgetsSize - 1) => InpTakesNextLine]_vars

----------------------------------------------------------------------------
(* The label table *)

\* the addresses at which the first pass recorded a label
LabelledAddrs == { a \in Addr : cached_labels[a].string # NULL }
LabelTableUnique ==
    \A a, b \in LabelledAddrs :
        a # b => UpperText(TokenText(cached_labels[a])) # UpperText(TokenText(cached_labels[b]))

\* C14: labels are unique: once the first pass has completed without error no
\* two addresses of the label table hold the same label text (letter case
\* apart), so no symbolic operand matches more than one address, and a source
\* that defines a label twice does not assemble.
C14_LabelsUnique ==
    (phase = "encode" \/ (phase = "assembled" /\ result)) =>
        /\ LabelTableUnique
        /\ \A k \in 1 .. Len(head) :
              head[k].label_offset.string # NULL =>
                  Cardinality(LabelMatches(head[k].label_offset)) <= 1

----------------------------------------------------------------------------
(* Decoding and the terminal states of lmc_execute *)

\* the word the next iteration fetches
Fetched == pool[pc]
Faults ==
    /\ phase' = "executed" /\ result' = FALSE
    /\ error_msg'.kind = "UnknownOpcode"
    /\ acc' = acc /\ negative' = negative /\ pool' = pool /\ outstream' = outstream
NineWords == (INP * 100) .. (INP * 100 + 99)

\* C15: under opcode digit 9, the word 901 executes as INP, 902 as OUT, and every
\* other word of 900..999 faults with 'Unknown opcode' and acts as no instruction.
C15_DigitNineDecoding ==
    [][ (phase = "execute" /\ Fetched \in NineWords) =>
           /\ Fetched = 901 => ir' = INP /\ phase' = "execute"
           /\ Fetched = 902 => ir' = OUT /\ outstream' = outstream \o OutLine(acc)
           /\ Fetched \notin {901, 902} => Faults ]_vars

\* the same with the word 900 left out; 903..999 decode to no opcode at all
DigitNineDecodingAbove900 ==
    /\ \A w \in 903 .. 999 : Decode(w) \notin Executable \cup {HLT}
    /\ [][ (phase = "execute" /\ Fetched \in NineWords \ {900}) =>
             /\ Fetched = 901 => ir' = INP /\ phase' = "execute"
             /\ Fetched = 902 => ir' = OUT /\ outstream' = outstream \o OutLine(acc)
             /\ Fetched \notin {901, 902} => Faults ]_vars

----------------------------------------------------------------------------
(* Who sets the negative flag *)

\* the step leaves the flag as it was, by an instruction that does not write it
FlagKept == negative' = negative /\ ir' \notin {ADD, SUB, LDA, INP}
SubUnderflows == ir' = SUB /\ acc < pool[ar']
\* an INP whose buffer starts with '-': read from the stream or, at the end of
\* the input, left in the array
InpMaySeeSign == ir' = INP /\ (instream = <<>> \/ Head(instream) = "-")

\* C16 as stated: the flag is set only by subtraction underflow: whenever it is
\* true after a step, either the step did not write it or the step was a SUB
\* whose mailbox value exceeded the accumulator.
C16_FlagOnlyBySub ==
    [][ (phase = "execute" /\ negative') => (FlagKept \/ SubUnderflows) ]_vars

\* C16 as amended: the flag is set only by a SUB whose mailbox value exceeds the
\* accumulator or by an INP whose buffer starts with '-'.
C16_FlagBySubOrInp ==
    [][ (phase = "execute" /\ negative') =>
            (FlagKept \/ SubUnderflows \/ InpMaySeeSign) ]_vars

\* an INP has read the line '-12' and set the flag
C16_Witness ==
    /\ ir = INP /\ negative /\ acc = 12
    /\ input_log[1] = InputLine(-12) /\ instream = InputLine(999)

----------------------------------------------------------------------------
(* lmc_execute on one arbitrary word: what each value of a mailbox does when   *)
(* it is fetched, whether it was in the image or stored there by STA           *)

MaxWord == 1300

\* the word at address 0, any value from -MaxWord to MaxWord, with a data word
\* at address 9; or SUB 9, STA 2, which stores a negative accumulator into the
\* mailbox fetched next
WordImages ==
    { [a \in Addr |-> IF a = 0 THEN w ELSE IF a = 9 THEN 5 ELSE 0] :
        w \in (-MaxWord) .. MaxWord }
    \cup { [a \in Addr |-> IF a = 0 THEN 209 ELSE IF a = 1 THEN 302
                           ELSE IF a = 9 THEN d ELSE 0] : d \in {5, 150} }

InitWord ==
    /\ phase = "execute"
    /\ buffer = <<>>
    /\ pool \in WordImages
    /\ InitLocals

SpecWord == InitWord /\ [][NextExec]_vars


\* lmc.c:316: the opcode digit of a word
OpcodeDigit(w) == CDiv(w, 100)
ExecutableDigits == {ADD, SUB, STA, LDA, BRA, BRZ, BRP, INP}
Halts ==
    /\ phase' = "executed" /\ result' = TRUE
    /\ acc' = acc /\ outstream' = outstream
\* once lmc_execute has returned nothing is fetched or executed any more
Terminal == phase \in {"executed", "exit"} => (exec_vars' = exec_vars /\ pool' = pool)

\* C17: a fetched word of opcode digit 0 halts (returns true) whatever its
\* operand digits; a fetched word whose opcode digit is no executable opcode
\* (4, or a value outside 0..9) faults with 'Unknown opcode'; either way nothing
\* more is fetched, nothing is written and the accumulator keeps its value.
C17_HaltAndFaultTerminal ==
    [][ /\ (phase = "execute" /\ OpcodeDigit(Fetched) = HLT) => Halts
        /\ (phase = "execute" /\ OpcodeDigit(Fetched) \notin ExecutableDigits \cup {HLT}) => Faults
        /\ Terminal ]_vars

\* the same with opcode digit 10 left out
HaltAndFaultTerminalButTen ==
    [][ /\ (phase = "execute" /\ OpcodeDigit(Fetched) = HLT) => Halts
        /\ (phase = "execute" /\ OpcodeDigit(Fetched) \notin ExecutableDigits \cup {HLT, OUT})
               => Faults
        /\ Terminal ]_vars

----------------------------------------------------------------------------
(* The words the encoder writes *)

\* the operands a node may stand for: the address of a definition of its label,
\* its numeric offset, or 0
NodeOperands(node) ==
    IF node.label_offset.string # NULL THEN LabelMatches(node.label_offset)
    ELSE IF node.offset # NoOffset THEN {node.offset % 100}
    ELSE {0}
WordOfNode(k) ==
    /\ pool[k - 1] \in 0 .. (AccModulus - 1)
    /\ pool[k - 1] \div 100 = head[k].op
    /\ pool[k - 1] % 100 \in NodeOperands(head[k])

\* C18: after a successful assembly every encoded word is in 0..999, its
\* hundreds digit is the opcode digit recorded for the instruction and its low
\* two digits are the instruction's operand (literal mod 100, address of the
\* label, 1 or 2 for INP and OUT, or 0); a resolved operand never carries into
\* the opcode digit.
C18_EncodedWordShape ==
    (phase = "assembled" /\ result) => \A k \in 1 .. (Len(head) - 1) : WordOfNode(k)

\* the same for programs whose labels are each defined once
EncodedWordShapeUniqueLabels ==
    (phase = "assembled" /\ result /\ LabelTableUnique) =>
        \A k \in 1 .. (Len(head) - 1) : WordOfNode(k)

----------------------------------------------------------------------------
(* Mailbox addresses during execution *)

\* the instructions that read or write pool[ar], and those that copy ar to pc
UsesMailbox == {ADD, SUB, STA, LDA}
Branches == {BRA, BRZ, BRP}

\* C19: whatever 16-bit words the image holds, in every state of lmc_execute the
\* program counter is in 0..99 and the address register is in 0..99 whenever the
\* instruction just decoded reads or writes a mailbox or branches, also after
\* STA has stored a negative accumulator into a mailbox that is then fetched.
C19_AddressesInRange ==
    /\ pc \in Addr
    /\ ir \in UsesMailbox \cup Branches => ar \in Addr

\* SUB 9, STA 2 stored -150 at address 2, which was then fetched: the address
\* register holds 206 and no mailbox was touched with it
C19_Witness ==
    /\ phase = "executed" /\ ~result
    /\ pool[2] = -150 /\ pc = 3
    /\ ir = -1 /\ ar = 206

----------------------------------------------------------------------------
(* What each instruction leaves alone *)

====
